---- MODULE Spec2Model ----
(***************************************************************************)
(* A model of CodeChunkerMS._parse (src/_CodeChunkerMS/code_chunker.py):   *)
(* the recursive walk over a tree-sitter syntax tree that emits one chunk  *)
(* per function/class node that fits in max_chars, and the whole-file      *)
(* fallback.  The parser is an external collaborator: its result is drawn  *)
(* from the well-formed trees over a small source text.                    *)
(***************************************************************************)
EXTENDS Integers, Sequences, FiniteSets, TLC

\* ------------------------------------------------------------------ bounds

\* Largest number of nodes of a syntax tree, the root included.
MaxNodes == 4

\* max_chars ranges over -1 .. MaxBudget.
MaxBudget == 3

\* --------------------------------------------------------- configuration

CHUNK_NODES ==
    { "class_definition", "function_definition", "method_definition",
      "class_declaration", "function_declaration",
      "func_literal",
      "function_item", "impl_item" }

\* ------------------------------------------------------------ characters

\* The source is a sequence of characters.  Wide stands for one character
\* whose UTF-8 encoding takes two bytes; every other character takes one.
Newline == "\n"
Wide == "W"

Utf8Len(ch) == IF ch = Wide THEN 2 ELSE 1

IsSpace(ch) == ch \in {Newline, " "}

\* Number of bytes of bytes(s, "utf8").
RECURSIVE ByteLen(_)
ByteLen(s) == IF s = <<>> THEN 0 ELSE Utf8Len(Head(s)) + ByteLen(Tail(s))

\* bytes(s, "utf8") as a sequence of bytes: the two bytes of Wide are written
\* "W1" and "W2", every other character is its own byte.
RECURSIVE Utf8(_)
Utf8(s) ==
    IF s = <<>> THEN <<>>
    ELSE (IF Head(s) = Wide THEN <<"W1", "W2">> ELSE <<Head(s)>>) \o Utf8(Tail(s))

RECURSIVE CountNewlines(_)
CountNewlines(s) ==
    IF s = <<>> THEN 0
    ELSE (IF Head(s) = Newline THEN 1 ELSE 0) + CountNewlines(Tail(s))

Min(a, b) == IF a < b THEN a ELSE b

\* str.strip(): drop the leading and the trailing whitespace.
RECURSIVE LStrip(_)
LStrip(s) == IF s # <<>> /\ IsSpace(Head(s)) THEN LStrip(Tail(s)) ELSE s

RECURSIVE RStrip(_)
RStrip(s) ==
    IF s # <<>> /\ IsSpace(s[Len(s)]) THEN RStrip(SubSeq(s, 1, Len(s) - 1)) ELSE s

Strip(s) == RStrip(LStrip(s))

\* str.splitlines(): the lines of s, a line ending at each newline; the text
\* after the last newline is a line only when it is not empty.
RECURSIVE SplitLinesFrom(_, _)
SplitLinesFrom(s, cur) ==
    IF s = <<>> THEN (IF cur = <<>> THEN <<>> ELSE <<cur>>)
    ELSE IF Head(s) = Newline THEN <<cur>> \o SplitLinesFrom(Tail(s), <<>>)
    ELSE SplitLinesFrom(Tail(s), Append(cur, Head(s)))

SplitLines(s) == SplitLinesFrom(s, <<>>)

\* code[start:end] for 0 <= start, 0 <= end: Python clamps both to len(code).
Slice(s, start, end) == SubSeq(s, start + 1, Min(end, Len(s)))

\* ----------------------------------------------------------- syntax trees

\* Nodes are numbered 1..n in document order (pre-order); node 1 is the root.
Root == 1

RECURSIVE AncOrSelf(_, _)
AncOrSelf(parent, i) ==
    IF i = 0 THEN {} ELSE {i} \cup AncOrSelf(parent, parent[i])

\* The parent vectors of the ordered trees with n nodes.
ParentVecs(n) ==
    { p \in [1..n -> 0..(n - 1)] :
        /\ p[1] = 0
        /\ \A i \in 2..n : p[i] \in AncOrSelf(p, i - 1) }

ChildSet(parent, i) == { k \in DOMAIN parent : parent[k] = i }

Subtree(parent, i) == { k \in DOMAIN parent : i \in AncOrSelf(parent, k) }

IsLeaf(parent, i) == i # Root /\ ChildSet(parent, i) = {}

SetMin(S) == CHOOSE x \in S : \A y \in S : x <= y
SetMax(S) == CHOOSE x \in S : \A y \in S : x >= y

\* Type tags of the modelled grammar.  A comment and an identifier are
\* tokens (no children); a block and a class have children; a function
\* definition may have either.
LeafTypes == {"function_definition", "comment", "identifier"}
InnerTypes == {"function_definition", "class_definition", "block"}

TypeVecs(parent) ==
    { t \in [DOMAIN parent -> LeafTypes \cup InnerTypes \cup {"module"}] :
        /\ t[Root] = "module"
        /\ \A i \in DOMAIN parent \ {Root} :
              IF IsLeaf(parent, i) THEN t[i] \in LeafTypes ELSE t[i] \in InnerTypes }

\* The tag a grammar gives a node that the Python grammar calls tag: the
\* Rust grammar has function_item, impl_item, line_comment and source_file,
\* the C grammar function_definition, struct_specifier, comment,
\* compound_statement and translation_unit.
GrammarTag(lang, tag) ==
    CASE lang = "rust" ->
           (CASE tag = "function_definition" -> "function_item"
              [] tag = "class_definition" -> "impl_item"
              [] tag = "comment" -> "line_comment"
              [] tag = "module" -> "source_file"
              [] OTHER -> tag)
      [] lang = "c" ->
           (CASE tag = "class_definition" -> "struct_specifier"
              [] tag = "block" -> "compound_statement"
              [] tag = "module" -> "translation_unit"
              [] OTHER -> tag)
      [] OTHER -> tag

GrammarTags(lang, type) == [ i \in DOMAIN type |-> GrammarTag(lang, type[i]) ]

\* The tokens of the tree in document order.
RECURSIVE SeqOfSet(_)
SeqOfSet(S) ==
    IF S = {} THEN <<>> ELSE <<SetMin(S)>> \o SeqOfSet(S \ {SetMin(S)})

Leaves(parent) == SeqOfSet({ i \in DOMAIN parent : IsLeaf(parent, i) })

LeafChar(type, wide, i) ==
    IF i = wide THEN Wide ELSE IF type[i] = "comment" THEN "#" ELSE "a"

\* The source text of a tree: one character per token, one token per line,
\* an optional blank line before the first and a newline after the last.
RECURSIVE JoinLeaves(_, _, _)
JoinLeaves(ls, type, wide) ==
    IF ls = <<>> THEN <<>>
    ELSE IF Len(ls) = 1 THEN <<LeafChar(type, wide, ls[1])>>
    ELSE <<LeafChar(type, wide, ls[1]), Newline>> \o JoinLeaves(Tail(ls), type, wide)

SourceOf(parent, type, wide, lead, trail) ==
    (IF lead THEN <<Newline>> ELSE <<>>)
        \o JoinLeaves(Leaves(parent), type, wide)
        \o (IF trail THEN <<Newline>> ELSE <<>>)

\* Index (0-based, in characters) of token i in the source.
CharIndex(parent, lead, i) ==
    (IF lead THEN 1 ELSE 0)
        + 2 * (Cardinality({ k \in 1..i : IsLeaf(parent, k) }) - 1)

FirstLeaf(parent, i) == SetMin({ k \in Subtree(parent, i) : IsLeaf(parent, k) })
LastLeaf(parent, i) == SetMax(Subtree(parent, i))

\* parser.parse(bytes(code, "utf8")): offsets are byte offsets into the
\* encoded source, points are (line, column) with 0-based lines.
ParseTree(code, parent, type, lead) ==
    LET n == Len(parent)
        first(i) == CharIndex(parent, lead, FirstLeaf(parent, i))
        last(i) == CharIndex(parent, lead, LastLeaf(parent, i)) + 1
        from(i) == IF i = Root THEN 0 ELSE first(i)
        to(i) == IF i = Root THEN Len(code) ELSE last(i)
    IN  [ n |-> n,
          parent |-> parent,
          type |-> type,
          start_byte |-> [i \in 1..n |-> ByteLen(SubSeq(code, 1, from(i)))],
          end_byte |-> [i \in 1..n |-> ByteLen(SubSeq(code, 1, to(i)))],
          start_line |-> [i \in 1..n |-> CountNewlines(SubSeq(code, 1, from(i)))],
          end_line |-> [i \in 1..n |-> CountNewlines(SubSeq(code, 1, to(i)))] ]

NoTree ==
    [ n |-> 0, parent |-> <<>>, type |-> <<>>, start_byte |-> <<>>,
      end_byte |-> <<>>, start_line |-> <<>>, end_line |-> <<>> ]

\* The children last to first.
Children_Reversed(t, i) ==
    LET cs == SeqOfSet(ChildSet(t.parent, i))
    IN  [ k \in 1..Len(cs) |-> cs[Len(cs) + 1 - k] ]

\* node.children, in order.
Children(t, i) == SeqOfSet(ChildSet(t.parent, i))

\* node.prev_sibling, 0 for None.
PrevSibling(t, i) ==
    LET before == { k \in ChildSet(t.parent, t.parent[i]) : k < i }
    IN  IF i = Root \/ before = {} THEN 0 ELSE SetMax(before)

\* ------------------------------------------------------------------ state

VARIABLES
    pc,         \* "idle" | "walk" | "done"
    code,       \* the source text (str)
    max_chars,  \* the size budget
    tree,       \* the parsed tree
    stack,      \* nodes whose walk() call is pending, next call first
    chunks,     \* the chunk list being built; the return value once done
    origin,     \* per chunk: the node it comes from and the offsets sliced
    visited,    \* the nodes walk() was called on, in call order
    available,  \* self._available
    lang_id,    \* the language of the call, "none" before it is looked up
    exc,        \* the exception raised inside the try block, "none" if none
    printable,  \* whether stdout can encode and take the handler's message
    result,     \* what chunk_file returned
    file_path,  \* the suffix of the path chunk_file was called with
    touched,    \* what the call has consulted: "LANG_MAP", "file"
    memo,       \* the inputs and the result of the first of several calls
    peer        \* the locals of a second call running at the same time

fileVars == <<available, exc, printable, result, file_path, touched>>

callVars == <<memo, peer>>

vars ==
    <<pc, code, max_chars, tree, stack, chunks, origin, visited,
      available, lang_id, exc, printable, result, file_path, touched,
      memo, peer>>

NoMemo ==
    [ calls |-> 0, code |-> <<>>, max_chars |-> 0, tree |-> NoTree,
      lang_id |-> "none", chunks |-> <<>>, between |-> <<>> ]

NoPeer ==
    [ pc |-> "idle", code |-> <<>>, max_chars |-> 0, tree |-> NoTree,
      stack |-> <<>>, chunks |-> <<>>, overlap |-> FALSE ]

Init ==
    /\ pc = "idle"
    /\ code = <<>>
    /\ max_chars = 0
    /\ tree = NoTree
    /\ stack = <<>>
    /\ chunks = <<>>
    /\ origin = <<>>
    /\ visited = <<>>
    /\ available = TRUE
    /\ lang_id = "none"
    /\ exc = "none"
    /\ printable = TRUE
    /\ result = <<>>
    /\ file_path = "none"
    /\ touched = {}
    /\ memo = NoMemo
    /\ peer = NoPeer

\* ------------------------------------------------------------- operations

\* The allow-list without the class tags.
IsChunkNode_FunctionsOnly(type) ==
    type \in CHUNK_NODES \ {"class_definition", "class_declaration"}

\* The allow-list with the block tag added.
IsChunkNode_AlsoBlocks(type) == type \in CHUNK_NODES \cup {"block"}

\* The allow-list cut down to the tags listed for Python.
IsChunkNode_PythonOnly(type) ==
    type \in {"class_definition", "function_definition", "method_definition"}

IsChunkNode(type) == type \in CHUNK_NODES

\* The look-back without the test of the sibling's type.
StartByte_AnyPrev(t, node) ==
    LET prev == PrevSibling(t, node)
    IN  IF prev # 0 THEN t.start_byte[prev] ELSE t.start_byte[node]

\* The chunk without the look-back: it starts at the node.
StartByte_NoLookBack(t, node) == t.start_byte[node]

\* The look-back that hands the comment before a node down to the node's
\* first child.
StartByte_InheritsComment(t, node) ==
    LET prev == PrevSibling(t, node)
        up == IF node = Root THEN 0 ELSE PrevSibling(t, t.parent[node])
    IN  IF prev # 0 /\ t.type[prev] = "comment"
        THEN t.start_byte[prev]
        ELSE IF prev = 0 /\ up # 0 /\ t.type[up] = "comment"
             THEN t.start_byte[up]
             ELSE t.start_byte[node]

\* The look-back repeated over every comment of a run of comments.
RECURSIVE StartByte_Transitive(_, _)
StartByte_Transitive(t, node) ==
    LET prev == PrevSibling(t, node)
    IN  IF prev # 0 /\ t.type[prev] = "comment"
        THEN StartByte_Transitive(t, prev)
        ELSE t.start_byte[node]

\* Lines 79-86: the start of the chunk, moved back over a comment that is the
\* previous sibling.
StartByte(t, node) ==
    LET prev == PrevSibling(t, node)
    IN  IF prev # 0 /\ t.type[prev] = "comment"
        THEN t.start_byte[prev]
        ELSE t.start_byte[node]

\* Line 88: the str is sliced with the byte offsets.
ChunkText(src, t, node) == Slice(src, StartByte(t, node), t.end_byte[node])

\* The size test off by one.
TooBig_OffByOne(text, budget) == Len(text) > budget + 1

\* The size test with >= for >.
TooBig_Inclusive(text, budget) == Len(text) >= budget

\* The size test on the number of bytes of the text.
TooBig_CountsBytes(text, budget) == ByteLen(text) > budget

\* Line 91.
TooBig(text, budget) == Len(text) > budget

\* The chunk with the line on which its text begins as start_line.
NodeChunk_LineOfText(t, node, text) ==
    LET prev == PrevSibling(t, node)
    IN  [ type |-> t.type[node],
          text |-> text,
          start_line |-> IF prev # 0 /\ t.type[prev] = "comment"
                         THEN t.start_line[prev]
                         ELSE t.start_line[node],
          end_line |-> t.end_line[node] ]

\* Lines 97-102.
NodeChunk(t, node, text) ==
    [ type |-> t.type[node],
      text |-> text,
      start_line |-> t.start_line[node],
      end_line |-> t.end_line[node] ]

\* The split with the return of line 103 inside the else branch: after the
\* loop of lines 93-94 the walk falls through to the loop of lines 106-107.
CallsAfterSplit_FallsThrough(t, node) == Children(t, node) \o Children(t, node)

\* Lines 93-94: a node that is too big is split; walk() is called on each of
\* its children, once, and returns (line 103).
CallsAfterSplit(t, node) == Children(t, node)

\* The walk without the return of line 103: it falls through to the loop
\* over the children.
CallsAfterKeep_NoReturn(t, node) == Children(t, node)

\* Line 103: walk() returns after keeping a node; it calls walk() on none of
\* the node's children.
CallsAfterKeep(t, node) == <<>>

\* The fallback test without "not chunks".
NeedsFallback_IgnoresChunks(cs, src) == Strip(src) # <<>>

\* The fallback test without the strip().
NeedsFallback_NoStrip(cs, src) == cs = <<>> /\ src # <<>>

\* The fallback test with the blank test inverted.
NeedsFallback_Inverted(cs, src) == cs = <<>> /\ Strip(src) = <<>>

\* Line 112.
NeedsFallback(cs, src) == cs = <<>> /\ Strip(src) # <<>>

\* The fallback chunk with code.count("\n") for the number of lines.
FileChunk_CountsNewlines(src) ==
    [ type |-> "file",
      text |-> src,
      start_line |-> 0,
      end_line |-> CountNewlines(src) ]

\* Lines 113-118.
FileChunk(src) ==
    [ type |-> "file",
      text |-> src,
      start_line |-> 0,
      end_line |-> Len(SplitLines(src)) ]

\* The list that is not emptied: it starts with what the list held before.
FreshChunks_Kept(held) == held

\* Line 69: chunks is a new empty list, local to the call, whatever a list
\* of an earlier or of another call holds.
FreshChunks(held) == <<>>

\* Lines 64-68: the source of a file in language lang and its tree.  With
\* plain, the source is ASCII and has no blank line around it.
ParseInputs(maxn, lang, plain) ==
    \E n \in 1..maxn, lead \in BOOLEAN, trail \in BOOLEAN :
      \E parent \in ParentVecs(n) :
        \E type \in TypeVecs(parent), wide \in {0} \cup { i \in 1..n : IsLeaf(parent, i) } :
          LET src == SourceOf(parent, type, wide, lead, trail)
          IN  /\ plain => wide = 0 /\ ~lead /\ ~trail
              /\ code' = src
              /\ tree' = ParseTree(src, parent, GrammarTags(lang, type), lead)

\* The same sources and trees as a set, for a call whose locals are kept in
\* a record.
PlainInputs(maxn, lang) ==
    UNION { UNION { { [ code |-> SourceOf(parent, type, 0, FALSE, FALSE),
                        tree |-> ParseTree(SourceOf(parent, type, 0, FALSE, FALSE),
                                           parent, GrammarTags(lang, type), FALSE) ] :
                      type \in TypeVecs(parent) } :
                    parent \in ParentVecs(n) } :
            n \in 1..maxn }

\* Lines 69 and 109: the empty list and the call of walk on the root.
StartWalk ==
    /\ stack' = <<Root>>
    /\ chunks' = FreshChunks(chunks)
    /\ origin' = FreshChunks(origin)
    /\ visited' = <<>>
    /\ pc' = "walk"

\* Lines 63-72 and the call of line 109: parse the source (a Python file)
\* and start the walk at the root.
Parse ==
    /\ pc = "idle"
    /\ \E budget \in -1..MaxBudget : max_chars' = budget
    /\ lang_id' = "python"
    /\ ParseInputs(MaxNodes, "python", FALSE)
    /\ StartWalk
    /\ UNCHANGED <<fileVars, callVars>>

\* Lines 75-107: one call of walk(node); the calls it makes on the children
\* are pushed in order.
Walk ==
    /\ pc = "walk"
    /\ stack # <<>>
    /\ LET node == Head(stack)
           text == ChunkText(code, tree, node)
       IN  /\ visited' = Append(visited, node)
           /\ IF IsChunkNode(tree.type[node])
              THEN IF TooBig(text, max_chars)
                   THEN /\ stack' = CallsAfterSplit(tree, node) \o Tail(stack)
                        /\ UNCHANGED <<chunks, origin>>
                   ELSE /\ chunks' = Append(chunks, NodeChunk(tree, node, text))
                        /\ origin' = Append(origin,
                                            [ node |-> node,
                                              start_byte |-> StartByte(tree, node),
                                              end_byte |-> tree.end_byte[node] ])
                        /\ stack' = CallsAfterKeep(tree, node) \o Tail(stack)
              ELSE /\ stack' = Children(tree, node) \o Tail(stack)
                   /\ UNCHANGED <<chunks, origin>>
    /\ UNCHANGED <<pc, code, max_chars, tree, lang_id, fileVars, callVars>>

\* Lines 111-120: the walk has returned; add the fallback chunk if needed and
\* return the list.
Finish ==
    /\ pc = "walk"
    /\ stack = <<>>
    /\ IF NeedsFallback(chunks, code)
       THEN /\ chunks' = Append(chunks, FileChunk(code))
            /\ origin' = Append(origin,
                                [ node |-> 0, start_byte |-> 0,
                                  end_byte |-> ByteLen(code) ])
       ELSE UNCHANGED <<chunks, origin>>
    /\ pc' = "done"
    /\ UNCHANGED <<code, max_chars, tree, stack, visited, lang_id, fileVars, callVars>>

Next == Parse \/ Walk \/ Finish

Spec == Init /\ [][Next]_vars

\* -------------------------------------------------------------- chunk_file

\* Lines 9-17.
LANG_MAP ==
    [ ext \in {".py", ".js", ".jsx", ".ts", ".tsx", ".go", ".rs", ".java",
               ".cpp", ".cc", ".c", ".h"} |->
        CASE ext = ".py" -> "python"
          [] ext \in {".js", ".jsx"} -> "javascript"
          [] ext \in {".ts", ".tsx"} -> "typescript"
          [] ext = ".go" -> "go"
          [] ext = ".rs" -> "rust"
          [] ext = ".java" -> "java"
          [] ext \in {".cpp", ".cc"} -> "cpp"
          [] OTHER -> "c" ]

\* The suffixes of the paths chunk_file is called with.
Suffixes == {".py", ".PY", ".rs", ".c", ".txt", ""}

\* str.lower() on these suffixes.
Lower(suffix) == IF suffix = ".PY" THEN ".py" ELSE suffix

\* What the try block of lines 56-58 can raise: read_text an OSError,
\* get_language and parser.parse a ValueError, the recursion of walk a
\* RecursionError.
Exceptions == {"OSError", "ValueError", "RecursionError"}

\* Line 59: "except Exception" catches each of them.
Caught(e) == e \in Exceptions

\* The instance after __init__ (lines 33-42): the import has succeeded or
\* failed.
InitFile ==
    /\ pc = "idle"
    /\ code = <<>>
    /\ max_chars = 0
    /\ tree = NoTree
    /\ stack = <<>>
    /\ chunks = <<>>
    /\ origin = <<>>
    /\ visited = <<>>
    /\ available \in BOOLEAN
    /\ lang_id = "none"
    /\ exc = "none"
    /\ printable \in BOOLEAN
    /\ result = <<>>
    /\ file_path = "none"
    /\ touched = {}
    /\ memo = NoMemo
    /\ peer = NoPeer

\* The call that goes on when the import has failed.
Unavailable_Ignored(avail) == FALSE

\* Line 48: if not self._available.
Unavailable(avail) == ~avail

\* Lines 44-55: the early returns and the lookup of the language.  The calls
\* on the instance are counted up to the second.
ChunkFile ==
    /\ pc = "idle"
    /\ \E suffix \in Suffixes, budget \in -1..MaxBudget :
         /\ file_path' = suffix
         /\ max_chars' = budget
         /\ IF Unavailable(available)
            THEN /\ result' = <<>>
                 /\ pc' = "returned"
                 /\ UNCHANGED <<lang_id, touched>>
            ELSE IF Lower(suffix) \notin DOMAIN LANG_MAP
                 THEN /\ result' = <<>>
                      /\ pc' = "returned"
                      /\ touched' = {"LANG_MAP"}
                      /\ UNCHANGED lang_id
                 ELSE /\ lang_id' = LANG_MAP[Lower(suffix)]
                      /\ pc' = "try"
                      /\ touched' = {"LANG_MAP"}
                      /\ UNCHANGED result
    /\ memo' = [memo EXCEPT !.calls = Min(@ + 1, 2)]
    /\ UNCHANGED <<code, tree, stack, chunks, origin, visited,
                   available, exc, printable, peer>>

\* Line 57: read_text raises (no such file, a directory, no permission).
ReadFails ==
    /\ pc = "try"
    /\ exc' = "OSError"
    /\ touched' = touched \cup {"file"}
    /\ pc' = "except"
    /\ UNCHANGED <<code, max_chars, tree, stack, chunks, origin, visited,
                   available, lang_id, printable, result, file_path, memo, peer>>

\* Lines 64-68: the file is read, get_language or parser.parse raises.
ParseFails ==
    /\ pc = "try"
    /\ exc' = "ValueError"
    /\ touched' = touched \cup {"file"}
    /\ pc' = "except"
    /\ UNCHANGED <<code, max_chars, tree, stack, chunks, origin, visited,
                   available, lang_id, printable, result, file_path, memo, peer>>

\* Lines 57-58, 63-72 and 109: the file is read and parsed, the walk starts.
ReadAndParse ==
    /\ pc = "try"
    /\ ParseInputs(MaxNodes - 1, lang_id, FALSE)
    /\ StartWalk
    /\ touched' = touched \cup {"file"}
    /\ UNCHANGED <<max_chars, lang_id, available, exc, printable, result,
                   file_path, callVars>>

\* Lines 75-107: a call of walk raises (the recursion is too deep).
WalkRaises ==
    /\ pc = "walk"
    /\ stack # <<>>
    /\ exc' = "RecursionError"
    /\ pc' = "except"
    /\ UNCHANGED <<code, max_chars, tree, stack, chunks, origin, visited,
                   available, lang_id, printable, result, file_path, touched,
                   memo, peer>>

\* Line 58: chunk_file returns what _parse returned.
ReturnParsed ==
    /\ pc = "done"
    /\ result' = chunks
    /\ pc' = "returned"
    /\ UNCHANGED <<code, max_chars, tree, stack, chunks, origin, visited,
                   available, lang_id, exc, printable, file_path, touched,
                   memo, peer>>

\* Lines 59-61: the handler prints the message and returns the empty list.
\* An exception that is not caught, and one that print raises inside the
\* handler, leave chunk_file.
Except ==
    /\ pc = "except"
    /\ IF Caught(exc) /\ printable
       THEN /\ result' = <<>>
            /\ pc' = "returned"
       ELSE /\ pc' = "raised"
            /\ UNCHANGED result
    /\ UNCHANGED <<code, max_chars, tree, stack, chunks, origin, visited,
                   available, lang_id, exc, printable, file_path, touched,
                   memo, peer>>

\* The call is over and its locals are gone; the caller is about to call
\* chunk_file on the same instance again.
CallAgain ==
    /\ pc \in {"returned", "raised"}
    /\ pc' = "idle"
    /\ code' = <<>>
    /\ max_chars' = 0
    /\ tree' = NoTree
    /\ stack' = <<>>
    /\ chunks' = <<>>
    /\ origin' = <<>>
    /\ visited' = <<>>
    /\ lang_id' = "none"
    /\ exc' = "none"
    /\ result' = <<>>
    /\ file_path' = "none"
    /\ touched' = {}
    /\ printable' \in BOOLEAN
    /\ UNCHANGED <<available, memo, peer>>

NextFile ==
    \/ ChunkFile
    \/ ReadFails
    \/ ParseFails
    \/ ReadAndParse
    \/ Walk
    \/ WalkRaises
    \/ Finish
    \/ ReturnParsed
    \/ Except
    \/ CallAgain

SpecFile == InitFile /\ [][NextFile]_vars

\* ---------------------------------------------------------- several calls

\* The first of several calls of _parse on one instance, on a small plain
\* source.
FirstCall ==
    /\ pc = "idle"
    /\ \E budget \in -1..MaxBudget : max_chars' = budget
    /\ lang_id' = "python"
    /\ ParseInputs(MaxNodes - 2, "python", TRUE)
    /\ StartWalk
    /\ memo' = [memo EXCEPT !.calls = 1]
    /\ UNCHANGED <<fileVars, peer>>

\* The first call has returned; its inputs and its result are noted and
\* _parse is called again, on any small plain source.
OtherCall ==
    /\ pc = "done"
    /\ memo.calls = 1
    /\ memo' = [ calls |-> 2, code |-> code, max_chars |-> max_chars,
                 tree |-> tree, lang_id |-> lang_id, chunks |-> chunks,
                 between |-> <<>> ]
    /\ \E budget \in -1..MaxBudget : max_chars' = budget
    /\ lang_id' = "python"
    /\ ParseInputs(MaxNodes - 2, "python", TRUE)
    /\ StartWalk
    /\ UNCHANGED <<fileVars, peer>>

\* The second call has returned; its result is noted and _parse is called
\* with the inputs of the first call.
SameCall ==
    /\ pc = "done"
    /\ memo.calls = 2
    /\ memo' = [memo EXCEPT !.calls = 3, !.between = chunks]
    /\ code' = memo.code
    /\ max_chars' = memo.max_chars
    /\ tree' = memo.tree
    /\ lang_id' = memo.lang_id
    /\ StartWalk
    /\ UNCHANGED <<fileVars, peer>>

NextTwice == FirstCall \/ Walk \/ Finish \/ OtherCall \/ SameCall

SpecTwice == Init /\ [][NextTwice]_vars

\* ------------------------------------------------------ interleaved calls

\* Lines 63-72 and 109 in a second call, started at any moment of the first;
\* overlap notes that the first call was inside its walk.
PeerParse ==
    /\ peer.pc = "idle"
    /\ \E budget \in -1..MaxBudget, in \in PlainInputs(MaxNodes - 2, "python") :
         peer' = [ pc |-> "walk",
                   code |-> in.code,
                   max_chars |-> budget,
                   tree |-> in.tree,
                   stack |-> <<Root>>,
                   chunks |-> FreshChunks(chunks),
                   overlap |-> pc = "walk" /\ visited # <<>> ]
    /\ UNCHANGED <<pc, code, max_chars, tree, stack, chunks, origin, visited,
                   lang_id, fileVars, memo>>

\* Lines 75-107 in the second call.
PeerWalk ==
    /\ peer.pc = "walk"
    /\ peer.stack # <<>>
    /\ LET node == Head(peer.stack)
           text == ChunkText(peer.code, peer.tree, node)
       IN  peer' =
             IF IsChunkNode(peer.tree.type[node])
             THEN IF TooBig(text, peer.max_chars)
                  THEN [peer EXCEPT
                          !.stack = CallsAfterSplit(peer.tree, node) \o Tail(@)]
                  ELSE [peer EXCEPT
                          !.chunks = Append(@, NodeChunk(peer.tree, node, text)),
                          !.stack = CallsAfterKeep(peer.tree, node) \o Tail(@)]
             ELSE [peer EXCEPT !.stack = Children(peer.tree, node) \o Tail(@)]
    /\ UNCHANGED <<pc, code, max_chars, tree, stack, chunks, origin, visited,
                   lang_id, fileVars, memo>>

\* Lines 111-120 in the second call.
PeerFinish ==
    /\ peer.pc = "walk"
    /\ peer.stack = <<>>
    /\ peer' = [peer EXCEPT
                  !.pc = "done",
                  !.chunks = IF NeedsFallback(@, peer.code)
                             THEN Append(@, FileChunk(peer.code))
                             ELSE @]
    /\ UNCHANGED <<pc, code, max_chars, tree, stack, chunks, origin, visited,
                   lang_id, fileVars, memo>>

NextPair == FirstCall \/ Walk \/ Finish \/ PeerParse \/ PeerWalk \/ PeerFinish

SpecPair == Init /\ [][NextPair]_vars

\* What one call returns when no other call runs: the walk of lines 75-109
\* as a function of the pending calls, and the fallback of lines 111-120.
RECURSIVE WalkAlone(_, _, _, _)
WalkAlone(src, t, budget, calls) ==
    IF calls = <<>> THEN <<>>
    ELSE LET node == Head(calls)
             text == ChunkText(src, t, node)
         IN  IF IsChunkNode(t.type[node])
             THEN IF TooBig(text, budget)
                  THEN WalkAlone(src, t, budget,
                                 CallsAfterSplit(t, node) \o Tail(calls))
                  ELSE <<NodeChunk(t, node, text)>>
                         \o WalkAlone(src, t, budget,
                                       CallsAfterKeep(t, node) \o Tail(calls))
             ELSE WalkAlone(src, t, budget, Children(t, node) \o Tail(calls))

Alone(src, t, budget) ==
    LET cs == WalkAlone(src, t, budget, <<Root>>)
    IN  IF NeedsFallback(cs, src) THEN Append(cs, FileChunk(src)) ELSE cs

\* ------------------------------------------------------------- vocabulary

Done == pc = "done"

Nodes == 1..tree.n

\* The chunk-worthy nodes of the tree.
Units == { i \in Nodes : tree.type[i] \in CHUNK_NODES }

HasChildren(i) == ChildSet(tree.parent, i) # {}

ProperDescendants(i) == Subtree(tree.parent, i) \ {i}

\* The nodes the walk emitted a chunk for (the fallback chunk has node 0).
Emitted == { origin[k].node : k \in DOMAIN origin } \ {0}

\* The text walk() slices for a node and compares with max_chars.
ExtendedText(i) == ChunkText(code, tree, i)

Oversize(i) == Len(ExtendedText(i)) > max_chars

\* The chunks whose sliced range contains the node's own byte range.
Covering(i) ==
    { k \in DOMAIN origin :
        /\ origin[k].start_byte <= tree.start_byte[i]
        /\ tree.end_byte[i] <= origin[k].end_byte }

NonBlank(s) == \E i \in DOMAIN s : ~IsSpace(s[i])

\* Lines of a text: one per newline, and one more for a last line that does
\* not end in a newline.
NumLines(s) ==
    Cardinality({ i \in DOMAIN s : s[i] = Newline })
        + (IF s # <<>> /\ s[Len(s)] # Newline THEN 1 ELSE 0)

\* The source has no character of more than one byte.
Ascii(s) == ByteLen(s) = Len(s)

HasFileChunk == \E k \in DOMAIN chunks : chunks[k].type = "file"

\* The units with no unit above them.
TopUnits == { u \in Units : AncOrSelf(tree.parent, u) \cap Units = {u} }

\* ----------------------------------------------------------------- claims

\* C1, on a source of one-byte characters: a chunk-worthy node without
\* children whose comment-extended text is longer than max_chars is emitted
\* whole: the result holds a chunk whose sliced range is, or at least
\* contains, the node's comment-extended range, so its text is neither dropped
\* nor truncated.
C1_OversizeLeafEmittedWhole ==
    (Done /\ Ascii(code)) =>
        \A u \in Units :
            (~HasChildren(u) /\ Oversize(u)) =>
                \E k \in DOMAIN origin :
                    /\ origin[k].start_byte <= StartByte(tree, u)
                    /\ tree.end_byte[u] <= origin[k].end_byte

C3_OversizeUnitsEmittedWhole ==
    ( /\ Done
      /\ Ascii(code)
      /\ max_chars > 0
      /\ Units # {}
      /\ \A u \in Units :
            /\ Oversize(u)
            /\ HasChildren(u)
            /\ ChildSet(tree.parent, u) \cap Units = {} )
    =>
    ( /\ ~HasFileChunk
      /\ Len(chunks) = Cardinality(TopUnits)
      /\ \A u \in TopUnits :
            \E k \in DOMAIN chunks :
                origin[k].node = u /\ chunks[k].type = tree.type[u] )

\* C4: a chunk emitted for a node that has children is never longer than
\* max_chars.
C4_ChunkOfParentWithinBudget ==
    \A k \in DOMAIN chunks :
        (origin[k].node # 0 /\ HasChildren(origin[k].node))
            => Len(chunks[k].text) <= max_chars

\* A node with children was kept with a text of exactly max_chars characters.
C4_Witness ==
    /\ Done
    /\ \E k \in DOMAIN chunks :
          /\ origin[k].node # 0
          /\ HasChildren(origin[k].node)
          /\ Len(chunks[k].text) = max_chars

\* C5: the result holds a "file" chunk exactly when the walk emitted nothing
\* and the source is not blank, and then it holds nothing else.
C5_FallbackIffNothingEmitted ==
    Done =>
        /\ HasFileChunk <=> (Emitted = {} /\ NonBlank(code))
        /\ HasFileChunk => Len(chunks) = 1

\* The fallback after a walk that met chunk-worthy nodes and kept none.
C5_Witness == Done /\ HasFileChunk /\ Units # {} /\ Len(visited) = tree.n

C7_BlankSourceNoChunks == (Done /\ ~NonBlank(code)) => chunks = <<>>

\* A source of one newline, with any budget, returned the empty list.
C7_Witness == Done /\ code = <<Newline>> /\ max_chars > 0 /\ chunks = <<>>

\* C8: a source that is not blank gives a list that is not empty, for every
\* max_chars, 0 and negative included.
C8_NonBlankSourceSomeChunk == (Done /\ NonBlank(code)) => chunks # <<>>

\* A negative budget on a source with chunk-worthy nodes.
C8_Witness ==
    Done /\ NonBlank(code) /\ max_chars < 0 /\ Units # {} /\ chunks # <<>>

\* C9: walk() is called on no proper descendant of a node that was emitted,
\* so no proper descendant of an emitted node is emitted.
C9_KeptNodeAbsorbsSubtree ==
    \A e \in Emitted :
        \A d \in ProperDescendants(e) :
            /\ \A j \in DOMAIN visited : visited[j] # d
            /\ d \notin Emitted

\* A class that fits was emitted over a function of its own that fits too.
C9_Witness ==
    /\ Done
    /\ \E e \in Emitted :
          \E d \in ProperDescendants(e) : d \in Units /\ ~Oversize(d)

\* C10: each chunk starts, comment included, at or after the end of the chunk
\* before it.
C10_ChunksInOrderDisjoint ==
    \A k \in DOMAIN origin :
        k > 1 => origin[k].start_byte >= origin[k - 1].end_byte

\* Two chunks, the second one extended over its comment.
C10_Witness ==
    /\ Done
    /\ \E k \in DOMAIN origin :
          /\ k > 1
          /\ origin[k].node # 0
          /\ origin[k].start_byte < tree.start_byte[origin[k].node]

\* C11: the start_line values of the chunks of the result never decrease.
C11_StartLinesNonDecreasing ==
    Done =>
        \A k \in DOMAIN chunks :
            k > 1 => chunks[k - 1].start_line <= chunks[k].start_line

\* Three chunks on three different lines.
C11_Witness ==
    /\ Done
    /\ Len(chunks) >= 3
    /\ chunks[1].start_line < chunks[2].start_line
    /\ chunks[2].start_line < chunks[3].start_line

\* The node's own text, and its text from the start of the comment that is
\* its previous sibling (the node's own text when there is none).
OwnText(i) == Slice(code, tree.start_byte[i], tree.end_byte[i])

HasCommentBefore(i) ==
    /\ PrevSibling(tree, i) # 0
    /\ tree.type[PrevSibling(tree, i)] = "comment"

TextWithComment(i) ==
    IF HasCommentBefore(i)
    THEN Slice(code, tree.start_byte[PrevSibling(tree, i)], tree.end_byte[i])
    ELSE OwnText(i)

WasVisited(i) == \E j \in DOMAIN visited : visited[j] = i

\* C12: a chunk-worthy node the walk reaches whose text has exactly
\* max_chars characters is kept as one chunk, and one that is split has a
\* text of more than max_chars characters.
C12_ExactlyMaxCharsIsKept ==
    Done =>
        \A u \in Units :
            WasVisited(u) =>
                /\ Len(TextWithComment(u)) = max_chars => u \in Emitted
                /\ u \notin Emitted => Len(TextWithComment(u)) > max_chars

\* One unit of exactly max_chars characters was kept and a longer one split.
C12_Witness ==
    /\ Done
    /\ max_chars > 0
    /\ \E u \in Emitted : Len(TextWithComment(u)) = max_chars
    /\ \E u \in Units :
          WasVisited(u) /\ u \notin Emitted /\ Len(TextWithComment(u)) > max_chars

\* C13: the text of a chunk of the walk is the slice of the source from the
\* start_byte of the node's previous sibling when that is a comment, from the
\* node's own start_byte otherwise, to the node's end_byte.
C13_TextStartsAtComment ==
    \A k \in DOMAIN chunks :
        origin[k].node # 0 =>
            LET u == origin[k].node
            IN  /\ origin[k].end_byte = tree.end_byte[u]
                /\ origin[k].start_byte =
                      (IF HasCommentBefore(u)
                       THEN tree.start_byte[PrevSibling(tree, u)]
                       ELSE tree.start_byte[u])
                /\ chunks[k].text = TextWithComment(u)

\* One chunk that starts at its comment and one whose previous sibling is no
\* comment.
C13_Witness ==
    /\ Done
    /\ \E u \in Emitted : HasCommentBefore(u)
    /\ \E u \in Emitted : PrevSibling(tree, u) # 0 /\ ~HasCommentBefore(u)

\* C14: the text of every chunk is, byte for byte, the slice of the encoded
\* source between the start and end byte offsets of the chunk, also when the
\* source holds a character of more than one byte.
C14_TextIsByteExactSlice ==
    Done =>
        \A k \in DOMAIN chunks :
            Utf8(chunks[k].text)
                = SubSeq(Utf8(code), origin[k].start_byte + 1, origin[k].end_byte)

\* C20 as stated, on a source of one-byte characters and the nodes that have
\* a chunk-worthy child (what an oversize node without one becomes is C1 and
\* C3): a chunk-worthy node the walk reaches whose own text is not longer
\* than max_chars is emitted, also when its text with the comment before it
\* is longer than max_chars.
C20_OwnTextDecides ==
    (Done /\ Ascii(code)) =>
        \A u \in Units :
            ( /\ WasVisited(u)
              /\ ChildSet(tree.parent, u) \cap Units # {}
              /\ Len(OwnText(u)) <= max_chars )
            => u \in Emitted

\* C20 amended: the comment takes part in the decision.  A chunk-worthy node
\* the walk reaches whose own text is not longer than max_chars but whose text
\* with the comment before it is longer is not emitted: it is split, walk()
\* being called on each of its children.
C20_CommentCountsInSizeTest ==
    Done =>
        \A u \in Units :
            ( /\ WasVisited(u)
              /\ HasCommentBefore(u)
              /\ Len(OwnText(u)) <= max_chars
              /\ Len(TextWithComment(u)) > max_chars )
            =>
            ( /\ u \notin Emitted
              /\ \A c \in ChildSet(tree.parent, u) : WasVisited(c) )

\* A function with children that fits on its own was split because of the
\* comment before it.
C20_Witness ==
    /\ Done
    /\ \E u \in Units :
          /\ WasVisited(u)
          /\ HasChildren(u)
          /\ HasCommentBefore(u)
          /\ Len(OwnText(u)) <= max_chars
          /\ Len(TextWithComment(u)) > max_chars
          /\ u \notin Emitted

\* The nodes of the subtrees of the pending calls, counted once per call,
\* and one more step for the return of the walk.
RECURSIVE PendingNodes(_)
PendingNodes(st) ==
    IF st = <<>> THEN 0
    ELSE Cardinality(Subtree(tree.parent, Head(st))) + PendingNodes(Tail(st))

Remaining == (IF pc = "walk" THEN 1 ELSE 0) + PendingNodes(stack)

\* C19: the walk ends, whatever the tree and max_chars, and walk() is called
\* at most once on each node: while the walk runs a step is always possible,
\* every step strictly lowers the number of nodes still ahead (a natural
\* number), and no node enters the list of calls twice.
C19_WalkTerminates ==
    /\ [](pc = "walk" => ENABLED (Walk \/ Finish))
    /\ [][ pc = "walk" =>
              /\ Remaining' < Remaining
              /\ \A j, k \in DOMAIN visited' : visited'[j] = visited'[k] => j = k ]_vars

\* A walk over a tree of four nodes that split a node and ended having
\* called walk() on every node.
C19_Witness ==
    /\ Done
    /\ Len(visited) = 4
    /\ \E u \in Units : WasVisited(u) /\ u \notin Emitted /\ HasChildren(u)

\* The tags the comments of lines 21-24 list for each language; none is
\* listed for Java, C++ and C.
AllowList(lang) ==
    CASE lang = "python" ->
           {"class_definition", "function_definition", "method_definition"}
      [] lang \in {"javascript", "typescript"} ->
           {"class_declaration", "function_declaration", "method_definition"}
      [] lang = "go" -> {"func_literal", "function_declaration"}
      [] lang = "rust" -> {"function_item", "impl_item"}
      [] OTHER -> {}

C16_NeverRaises ==
    /\ pc # "raised"
    /\ pc = "returned" /\ (exc # "none" \/ lang_id = "none") => result = <<>>

\* C17: a call with the source, tree, language and max_chars of the first
\* call returns the list the first call returned, directly after it and
\* after another call has run in between.
C17_SameInputsSameChunks ==
    /\ Done
    /\ memo.calls >= 2
    /\ code = memo.code
    /\ tree = memo.tree
    /\ lang_id = memo.lang_id
    /\ max_chars = memo.max_chars
    => chunks = memo.chunks

\* The third call has returned the chunk of the first call, after a second
\* call that returned another list.
C17_Witness ==
    /\ Done
    /\ memo.calls = 3
    /\ chunks = memo.chunks
    /\ memo.between # <<>>
    /\ memo.between # memo.chunks
    /\ \E k \in DOMAIN chunks : chunks[k].type = "function_definition"

\* C18: each of two interleaved calls returns the list it returns when it
\* runs alone.
C18_InterleavedCallsAsAlone ==
    /\ Done => chunks = Alone(code, tree, max_chars)
    /\ peer.pc = "done" => peer.chunks = Alone(peer.code, peer.tree, peer.max_chars)

\* Two calls on different sources that ran at the same time have returned
\* different lists, each with a chunk.
C18_Witness ==
    /\ Done
    /\ peer.pc = "done"
    /\ peer.overlap
    /\ code # peer.code
    /\ chunks # <<>>
    /\ peer.chunks # <<>>
    /\ chunks # peer.chunks

\* One call, alone: its result is the value of Alone.
SingleCallAsAlone == Done => chunks = Alone(code, tree, max_chars)

\* C21: what is compared with max_chars is the number of characters of the
\* text with the comment before the node, and the text that was compared is
\* the text of the chunk: a chunk-worthy node the walk reaches is emitted
\* exactly when that text has at most max_chars characters, and the text of
\* its chunk is that text.
C21_TestedTextIsEmittedText ==
    Done =>
        /\ \A u \in Units :
              WasVisited(u) =>
                 (u \in Emitted <=> Len(TextWithComment(u)) <= max_chars)
        /\ \A k \in DOMAIN chunks :
              origin[k].node # 0 =>
                 /\ chunks[k].text = TextWithComment(origin[k].node)
                 /\ Len(chunks[k].text) <= max_chars

\* On a source with a character of two bytes, a node was emitted with its
\* comment: the text of the chunk is longer than the node's own text and has
\* exactly max_chars characters.
C21_Witness ==
    /\ Done
    /\ ~Ascii(code)
    /\ \E k \in DOMAIN chunks :
          /\ origin[k].node # 0
          /\ HasCommentBefore(origin[k].node)
          /\ Len(OwnText(origin[k].node)) < Len(chunks[k].text)
          /\ Len(chunks[k].text) = max_chars

\* C22: the look-back goes one sibling back and no further.  The chunk of a
\* node that follows two comments starts at the second of them, after the
\* end of the first; the chunk of a node whose previous sibling is not a
\* comment starts at the node, whatever comes before that sibling.  The
\* first of two comments does not count in the size either: a node the walk
\* reaches that fits with the second comment alone is emitted.
C22_LookBackOneSibling ==
    /\ Done =>
         \A u \in Units :
            ( /\ WasVisited(u)
              /\ HasCommentBefore(u)
              /\ HasCommentBefore(PrevSibling(tree, u))
              /\ Len(Slice(code, tree.start_byte[PrevSibling(tree, u)],
                           tree.end_byte[u])) <= max_chars )
            => u \in Emitted
    /\ \A k \in DOMAIN chunks :
        origin[k].node # 0 =>
            LET u == origin[k].node
                p == PrevSibling(tree, u)
                pp == IF p = 0 THEN 0 ELSE PrevSibling(tree, p)
            IN  /\ ( /\ HasCommentBefore(u)
                     /\ pp # 0
                     /\ tree.type[pp] = "comment" )
                   => /\ origin[k].start_byte = tree.start_byte[p]
                      /\ origin[k].start_byte >= tree.end_byte[pp]
                      /\ chunks[k].text
                            = Slice(code, tree.start_byte[p], tree.end_byte[u])
                /\ (p # 0 /\ tree.type[p] # "comment")
                   => /\ origin[k].start_byte = tree.start_byte[u]
                      /\ chunks[k].text = OwnText(u)

\* A node that follows two comments was emitted, its text shorter than the
\* source from the first comment on.
C22_Witness ==
    /\ Done
    /\ Ascii(code)
    /\ \E k \in DOMAIN chunks :
          /\ origin[k].node # 0
          /\ HasCommentBefore(origin[k].node)
          /\ HasCommentBefore(PrevSibling(tree, origin[k].node))
          /\ chunks[k].text = <<"#", Newline, "a">>

\* The comment nodes of the tree.
Comments == { c \in Nodes : tree.type[c] = "comment" }

\* The chunks of the walk whose sliced range shares a byte with node c.
Touching(c) ==
    { k \in DOMAIN origin :
        /\ origin[k].node # 0
        /\ origin[k].start_byte < tree.end_byte[c]
        /\ tree.start_byte[c] < origin[k].end_byte }

\* C23: no chunk comes from a comment node; a comment lies in the sliced
\* range of a chunk of the walk only if it is the previous sibling of the
\* chunk's node or inside that node's subtree; and the comment before a node
\* that is split is not handed down: a node the walk reaches that has no
\* comment as previous sibling is emitted when its own text fits.
C23_CommentsOnlyWithTheirUnit ==
    /\ \A k \in DOMAIN origin :
          origin[k].node # 0 => origin[k].node \notin Comments
    /\ \A c \in Comments :
          \A k \in Touching(c) :
             \/ c = PrevSibling(tree, origin[k].node)
             \/ c \in Subtree(tree.parent, origin[k].node)
    /\ Done =>
         \A u \in Units :
            ( /\ WasVisited(u)
              /\ ~HasCommentBefore(u)
              /\ Len(OwnText(u)) <= max_chars )
            => u \in Emitted

\* A node with a comment before it was split and its child was emitted; the
\* comment lies in no chunk.
C23_Witness ==
    /\ Done
    /\ \E u \in Units :
          /\ HasCommentBefore(u)
          /\ WasVisited(u)
          /\ u \notin Emitted
          /\ ChildSet(tree.parent, u) \cap Emitted # {}
          /\ Touching(PrevSibling(tree, u)) = {}

\* C24: a chunk of the walk has the type of its node as type, the line of
\* the node's start as start_line, also when its text begins at a comment,
\* and the line of the node's end as end_line; start_line is not greater
\* than end_line.
C24_ChunkFieldsAreTheNodes ==
    \A k \in DOMAIN chunks :
        origin[k].node # 0 =>
            /\ chunks[k].type = tree.type[origin[k].node]
            /\ chunks[k].start_line = tree.start_line[origin[k].node]
            /\ chunks[k].end_line = tree.end_line[origin[k].node]
            /\ chunks[k].start_line <= chunks[k].end_line

\* A function was emitted with the comment on the line before it: its
\* start_line is the function's line, one after the line its text begins on.
C24_Witness ==
    /\ Done
    /\ \E k \in DOMAIN chunks :
          /\ chunks[k].type = "function_definition"
          /\ HasCommentBefore(origin[k].node)
          /\ chunks[k].start_line
                = tree.start_line[PrevSibling(tree, origin[k].node)] + 1
          /\ chunks[k].end_line = chunks[k].start_line
          /\ chunks[k].text = <<"#", Newline, "a">>

\* The chunk-worthy nodes strictly above node i.
UnitsAbove(i) == (AncOrSelf(tree.parent, i) \ {i}) \cap Units

\* C25: when the walk has returned, the nodes it emitted are exactly the
\* chunk-worthy nodes whose text with the comment before them has at most
\* max_chars characters while that of every chunk-worthy node above them has
\* more.  A node that is not chunk-worthy is emitted in no case and, when the
\* walk reaches it, the walk goes on to each of its children.
C25_EmittedIffFitsUnderSplitUnits ==
    Done =>
        /\ \A i \in Nodes :
              i \in Emitted <=>
                 /\ tree.type[i] \in CHUNK_NODES
                 /\ Len(TextWithComment(i)) <= max_chars
                 /\ \A a \in UnitsAbove(i) : Len(TextWithComment(a)) > max_chars
        /\ \A i \in Nodes \ Units :
              WasVisited(i) => \A c \in ChildSet(tree.parent, i) : WasVisited(c)

\* A node under a chunk-worthy node that was split was emitted, and the walk
\* reached a node without children that is not chunk-worthy and emitted
\* nothing for it.
C25_Witness ==
    /\ Done
    /\ \E i \in Emitted :
          /\ UnitsAbove(i) # {}
          /\ UnitsAbove(i) \cap Emitted = {}
    /\ \E i \in Nodes \ Units :
          /\ i # Root
          /\ ~HasChildren(i)
          /\ WasVisited(i)
          /\ Covering(i) = {}

\* C26: on an instance whose import failed, every call of chunk_file, the
\* first and the later ones, returns the empty list with nothing consulted
\* (neither LANG_MAP nor the file, no language looked up, nothing raised),
\* and no step changes the availability.
C26_UnavailableReturnsEmpty ==
    /\ [](~available =>
            /\ pc \in {"idle", "returned"}
            /\ touched = {}
            /\ code = <<>>
            /\ tree = NoTree
            /\ lang_id = "none"
            /\ exc = "none"
            /\ result = <<>>)
    /\ [][available' = available]_vars

\* A later call on an unavailable instance, for a Python file, has returned
\* the empty list.
C26_Witness ==
    /\ ~available
    /\ pc = "returned"
    /\ memo.calls = 2
    /\ file_path = ".py"
    /\ max_chars = MaxBudget
    /\ result = <<>>
    /\ touched = {}


====
